---- MODULE Spec2Model ----
(***************************************************************************)
(* clubhouse-to-discord: the Cloud Function F (src/function.go) that takes *)
(* a Clubhouse webhook, translates its single action with toDiscord and    *)
(* forwards the result to Discord, and the Clubhouse member lookup client  *)
(* (src/clubhouse.go).                                                     *)
(*                                                                         *)
(* Go strings are sequences of one-character strings, so that formatting,  *)
(* joining, trimming and title-casing are computed, not assumed.  A Go     *)
(* pointer is a sequence of length 0 (nil) or 1.                           *)
(***************************************************************************)
EXTENDS Integers, Sequences, FiniteSets, TLC

VARIABLES env, req, api, pc, w, webhook, referencesByTypeID, fields, colour,
          webhookTitle, webhookURL, discordWebhook, err, ownerI, owners,
          lookups, posts, run, prev

vars == <<env, req, api, pc, w, webhook, referencesByTypeID, fields, colour,
          webhookTitle, webhookURL, discordWebhook, err, ownerI, owners,
          lookups, posts, run, prev>>

-----------------------------------------------------------------------------
(* Bounds of the model. *)

\* longest reference list of an event
MaxRefs == 2
\* longest adds / removes list of a label or owner change
MaxIds == 2
\* most actions in one event
MaxActions == 2

-----------------------------------------------------------------------------
(* Strings. *)

LowerChars == <<"a","b","c","d","e","f","g","h","i","j","k","l","m",
                "n","o","p","q","r","s","t","u","v","w","x","y","z">>
UpperChars == <<"A","B","C","D","E","F","G","H","I","J","K","L","M",
                "N","O","P","Q","R","S","T","U","V","W","X","Y","Z">>
DigitChars == <<"0","1","2","3","4","5","6","7","8","9">>

Range(s) == {s[i] : i \in DOMAIN s}

\* unicode.ToTitle on the ASCII range
ToTitle(c) ==
  IF \E i \in DOMAIN LowerChars : LowerChars[i] = c
  THEN UpperChars[CHOOSE i \in DOMAIN LowerChars : LowerChars[i] = c]
  ELSE c

\* strings.isSeparator on the ASCII range: letters, digits and the
\* underscore are not separators, every other character is
isSeparator(c) ==
  c \notin (Range(LowerChars) \cup Range(UpperChars) \cup Range(DigitChars) \cup {"_"})

\* strings.Title: upper-cases the first letter of every word
Title(s) ==
  [i \in DOMAIN s |->
     IF isSeparator(IF i = 1 THEN " " ELSE s[i - 1]) THEN ToTitle(s[i]) ELSE s[i]]

isSpace(c) == c \in {" ", "\t", "\n"}

RECURSIVE TrimLeft(_)
TrimLeft(s) == IF s # <<>> /\ isSpace(Head(s)) THEN TrimLeft(Tail(s)) ELSE s

RECURSIVE TrimRight(_)
TrimRight(s) ==
  IF s # <<>> /\ isSpace(s[Len(s)]) THEN TrimRight(SubSeq(s, 1, Len(s) - 1)) ELSE s

\* strings.TrimSpace
TrimSpace(s) == TrimRight(TrimLeft(s))

RECURSIVE ItoaNat(_)
ItoaNat(n) == IF n < 10 THEN <<DigitChars[n + 1]>>
              ELSE ItoaNat(n \div 10) \o <<DigitChars[(n % 10) + 1]>>

\* strconv.Itoa, and fmt's %d
Itoa(n) == IF n < 0 THEN <<"-">> \o ItoaNat(0 - n) ELSE ItoaNat(n)

RECURSIVE Join(_, _)
\* strings.Join
Join(elems, sep) ==
  IF elems = <<>> THEN <<>>
  ELSE IF Len(elems) = 1 THEN elems[1]
  ELSE elems[1] \o sep \o Join(Tail(elems), sep)

sArrow == <<" ", "-", ">", " ">>
sComma == <<",", " ">>

\* fmt.Sprintf("%s -> %s", old, new)
ArrowFmt(old, new) == old \o sArrow \o new

\* fmt.Sprintf("%s:%d", entityType, id): the key of the reference index
TypeID(entityType, id) == entityType \o <<":">> \o Itoa(id)

\* the text of a time.Time (time.Time.String); times are day numbers here
TimeString(t) == <<"d", "a", "y", " ">> \o Itoa(t)

sCreate == <<"c","r","e","a","t","e">>
sUpdate == <<"u","p","d","a","t","e">>
sDelete == <<"d","e","l","e","t","e">>
sV1 == <<"v","1">>
sPOST == <<"P","O","S","T">>
sJSON == <<"a","p","p","l","i","c","a","t","i","o","n","/","j","s","o","n">>
sInvalidRequest == <<"i","n","v","a","l","i","d"," ","r","e","q","u","e","s","t">>

sProject == <<"p","r","o","j","e","c","t">>
sMilestone == <<"m","i","l","e","s","t","o","n","e">>
sWorkflowState == <<"w","o","r","k","f","l","o","w","-","s","t","a","t","e">>
sEpic == <<"e","p","i","c">>
sIteration == <<"i","t","e","r","a","t","i","o","n">>
sLabel == <<"l","a","b","e","l">>

sNone == <<"N","o","n","e">>
sUnknown == <<"U","n","k","n","o","w","n">>
sNoDate == <<"N","o"," ","D","a","t","e">>
sUnestimated == <<"U","n","e","s","t","i","m","a","t","e","d">>
sEdited == <<"(","E","d","i","t","e","d",")">>

nType == <<"T","y","p","e">>
nProject == <<"P","r","o","j","e","c","t">>
nMilestone == <<"M","i","l","e","s","t","o","n","e">>
nState == <<"S","t","a","t","e">>
nEpic == <<"E","p","i","c">>
nIteration == <<"I","t","e","r","a","t","i","o","n">>
nEstimate == <<"E","s","t","i","m","a","t","e">>
nDeadline == <<"D","e","a","d","l","i","n","e">>
nDescription == <<"D","e","s","c","r","i","p","t","i","o","n">>
nLabelsAdded == <<"L","a","b","e","l","(","s",")"," ","A","d","d","e","d">>
nLabelsRemoved == <<"L","a","b","e","l","(","s",")"," ","R","e","m","o","v","e","d">>
nOwnersAdded == <<"O","w","n","e","r","(","s",")"," ","A","d","d","e","d">>
nOwnersRemoved == <<"O","w","n","e","r","(","s",")"," ","R","e","m","o","v","e","d">>

-----------------------------------------------------------------------------
(* The reference index. *)

\* the zero ClubhouseReference, what a Go map yields for a missing key
ZeroReference == [EntityType |-> <<>>, ID |-> 0, Name |-> <<>>]

RECURSIVE IndexFrom(_, _)
IndexFrom(index, refs) ==
  IF refs = <<>> THEN index
  ELSE LET r == Head(refs)
           k == TypeID(r.EntityType, r.ID)
       IN IndexFrom([x \in (DOMAIN index) \cup {k} |-> IF x = k THEN r ELSE index[x]],
                    Tail(refs))

\* getReferencesByTypeID: a later reference with the same key overwrites
getReferencesByTypeID(wh) == IndexFrom(<<>>, wh.References)

\* referencesByTypeID[key], one-value form: the zero Reference when missing
MapGet(index, key) == IF key \in DOMAIN index THEN index[key] ELSE ZeroReference

Field(name, value, inline) == [Name |-> name, Value |-> value, Inline |-> inline]

-----------------------------------------------------------------------------
(* The create path: getActionFields. *)

\* one reference-valued field of a created entity: the name of the reference
\* under (entityType, id), empty when the index has no such key
RefField(index, name, entityType, id) ==
  IF id > 0 THEN <<Field(name, MapGet(index, TypeID(entityType, id)).Name, TRUE)>>
  ELSE <<>>

\* getActionFields, were the estimate tested with >= 0
getActionFields_ZeroEstimate(index, action) ==
     (IF action.StoryType # <<>> THEN <<Field(nType, action.StoryType, TRUE)>> ELSE <<>>)
  \o RefField(index, nProject, sProject, action.ProjectID)
  \o RefField(index, nMilestone, sMilestone, action.MilestoneID)
  \o RefField(index, nState, sWorkflowState, action.WorkflowStateID)
  \o RefField(index, nEpic, sEpic, action.EpicID)
  \o RefField(index, nIteration, sIteration, action.IterationID)
  \o (IF action.Estimate >= 0 THEN <<Field(nEstimate, Itoa(action.Estimate), TRUE)>> ELSE <<>>)

getActionFields(index, action) ==
     (IF action.StoryType # <<>> THEN <<Field(nType, action.StoryType, TRUE)>> ELSE <<>>)
  \o RefField(index, nProject, sProject, action.ProjectID)
  \o RefField(index, nMilestone, sMilestone, action.MilestoneID)
  \o RefField(index, nState, sWorkflowState, action.WorkflowStateID)
  \o RefField(index, nEpic, sEpic, action.EpicID)
  \o RefField(index, nIteration, sIteration, action.IterationID)
  \o (IF action.Estimate > 0 THEN <<Field(nEstimate, Itoa(action.Estimate), TRUE)>> ELSE <<>>)

-----------------------------------------------------------------------------
(* The update path: getChangesFields, cut at the member lookups it makes. *)

\* ResolveOrUnknown, were the map read in its one-value form as on the
\* create path: the empty name of the zero Reference for a missing key
ResolveOrUnknown_ZeroName(index, entityType, id) ==
  MapGet(index, TypeID(entityType, id)).Name

\* the name under (entityType, id), "Unknown" when the index has no such key
ResolveOrUnknown(index, entityType, id) ==
  IF TypeID(entityType, id) \in DOMAIN index
  THEN index[TypeID(entityType, id)].Name
  ELSE sUnknown

\* an *int side of an epic or iteration change: "None" for nil
ResolvePointer(index, entityType, ptr) ==
  IF ptr = <<>> THEN sNone ELSE ResolveOrUnknown(index, entityType, ptr[1])

DeadlineField(changes) ==
  IF changes.Deadline = <<>> THEN <<>>
  ELSE LET d == changes.Deadline[1]
           oldDeadline == IF d.Old = <<>> THEN sNoDate ELSE TimeString(d.Old[1])
           newDeadline == IF d.New = <<>> THEN sNoDate ELSE TimeString(d.New[1])
       IN <<Field(nDeadline, ArrowFmt(oldDeadline, newDeadline), FALSE)>>

EpicField(index, changes) ==
  IF changes.EpicID = <<>> THEN <<>>
  ELSE LET c == changes.EpicID[1]
       IN <<Field(nEpic, ArrowFmt(ResolvePointer(index, sEpic, c.Old),
                                  ResolvePointer(index, sEpic, c.New)), FALSE)>>

EstimateField(changes) ==
  IF changes.Estimate = <<>> THEN <<>>
  ELSE LET c == changes.Estimate[1]
           oldEstimateValue == IF c.Old = <<>> THEN sUnestimated ELSE Itoa(c.Old[1])
           newEstimateValue == IF c.New = <<>> THEN sUnestimated ELSE Itoa(c.New[1])
       IN <<Field(nEstimate, ArrowFmt(oldEstimateValue, newEstimateValue), FALSE)>>

IterationField(index, changes) ==
  IF changes.IterationID = <<>> THEN <<>>
  ELSE LET c == changes.IterationID[1]
       IN <<Field(nIteration, ArrowFmt(ResolvePointer(index, sIteration, c.Old),
                                       ResolvePointer(index, sIteration, c.New)), FALSE)>>

\* make([]string, len(ids)) and the loop that fills the slots of the label
\* ids the index knows: the slot of an unknown id keeps the empty string
LabelNames(index, ids) ==
  [i \in DOMAIN ids |->
     IF TypeID(sLabel, ids[i]) \in DOMAIN index
     THEN index[TypeID(sLabel, ids[i])].Name
     ELSE <<>>]

\* one of the two label fields, for the adds or the removes of a label change
LabelField(index, name, ids) ==
  IF Len(ids) > 0
  THEN LET labels == LabelNames(index, ids)
       IN IF Len(labels) > 0 THEN <<Field(name, Join(labels, sComma), FALSE)>> ELSE <<>>
  ELSE <<>>

LabelFields(index, changes) ==
  IF changes.LabelIds = <<>> THEN <<>>
  ELSE LabelField(index, nLabelsAdded, changes.LabelIds[1].Adds)
       \o LabelField(index, nLabelsRemoved, changes.LabelIds[1].Removes)

\* getChangesFields up to the owner change
ChangesHead(index, changes) ==
     DeadlineField(changes)
  \o EpicField(index, changes)
  \o EstimateField(changes)
  \o IterationField(index, changes)
  \o LabelFields(index, changes)

ProjectField(index, changes) ==
  IF changes.ProjectID = <<>> THEN <<>>
  ELSE LET c == changes.ProjectID[1]
       IN <<Field(nProject, ArrowFmt(ResolveOrUnknown(index, sProject, c.Old),
                                     ResolveOrUnknown(index, sProject, c.New)), FALSE)>>

StoryTypeField(changes) ==
  IF changes.StoryType = <<>> THEN <<>>
  ELSE <<Field(nType, Title(ArrowFmt(changes.StoryType[1].Old, changes.StoryType[1].New)),
               FALSE)>>

TextField(changes) ==
  IF changes.Text # <<>> /\ changes.Text[1].Old # changes.Text[1].New
  THEN <<Field(nDescription, sEdited, FALSE)>>
  ELSE <<>>

WorkflowStateField(index, changes) ==
  IF changes.WorkflowStateID = <<>> THEN <<>>
  ELSE LET c == changes.WorkflowStateID[1]
       IN <<Field(nState,
                  Title(ArrowFmt(ResolveOrUnknown(index, sWorkflowState, c.Old),
                                 ResolveOrUnknown(index, sWorkflowState, c.New))),
                  FALSE)>>

\* getChangesFields after the owner change
ChangesTail(index, changes) ==
     ProjectField(index, changes)
  \o StoryTypeField(changes)
  \o TextField(changes)
  \o WorkflowStateField(index, changes)

\* the ids of an owner change in the order getChangesFields looks them up
OwnerAdds(changes) == IF changes.OwnerIds = <<>> THEN <<>> ELSE changes.OwnerIds[1].Adds
OwnerRemoves(changes) == IF changes.OwnerIds = <<>> THEN <<>> ELSE changes.OwnerIds[1].Removes


-----------------------------------------------------------------------------
(* The environment of one invocation: configuration, request, remote ends. *)

\* url.Parse: of its errors the model keeps "missing protocol scheme",
\* raised for a URL that starts with a colon
UrlParseOk(u) == ~(u # <<>> /\ u[1] = ":")

\* HMAC-SHA256 as an ideal keyed function: two MACs are equal exactly when
\* key and message are
HmacSha256(key, data) == [key |-> key, msg |-> data]

\* A header value is [pad, valid, bytes]: pad says it carries surrounding
\* white space, valid that what is left is hexadecimal text, bytes what
\* that text decodes to (<<>> for the empty text).
HeaderTrimSpace(h) == [h EXCEPT !.pad = FALSE]
HeaderEmpty == [pad |-> FALSE, valid |-> TRUE, bytes |-> <<>>]

\* hex.DecodeString: an error for text that is not hexadecimal
HexDecodeString(h) == [err |-> ~h.valid, bytes |-> IF h.valid THEN h.bytes ELSE <<>>]

\* hmac.Equal
HmacEqual(a, b) == a = b

\* a JSON number member that may be missing, decoded into a Go int
IntOf(opt) == IF opt = <<>> THEN 0 ELSE opt[1]

\* a {new, old} JSON object decoded into a struct of two ints
PlainChange(sub) ==
  IF sub = <<>> THEN <<>> ELSE <<[New |-> IntOf(sub[1].New), Old |-> IntOf(sub[1].Old)]>>

DecodeChanges(c) ==
  [c EXCEPT !.ProjectID = PlainChange(c.ProjectID),
            !.WorkflowStateID = PlainChange(c.WorkflowStateID)]

DecodeAction(a) == [a EXCEPT !.Changes = DecodeChanges(a.Changes)]

\* json.Unmarshal(data, &webhook): an error for malformed JSON; a missing
\* member of a non-pointer struct leaves the Go zero value
Unmarshal(data) ==
  [err |-> ~data.ok,
   webhook |-> [Actions |-> [i \in DOMAIN data.doc.Actions |-> DecodeAction(data.doc.Actions[i])],
                MemberID |-> data.doc.MemberID,
                References |-> data.doc.References,
                Version |-> data.doc.Version]]

\* ClubhouseApiClient.GetMember: the outcomes the remote end allows for id,
\* each an error or a member profile
GetMember(id) == api[id]

\* what one call of GetMember leaves in the log of calls
Called(id, resp, at) == [id |-> id, ok |-> resp.ok, at |-> at]

\* the response of a call that is not made
NoMember == [ok |-> TRUE, Name |-> <<>>]

-----------------------------------------------------------------------------
(* toDiscord. *)

ColourCreate == 5424154
ColourUpdate == 16440084
ColourDelete == 16065069

\* the decoded event: the variable webhook of F holds nothing before F
\* declares and decodes it
event == webhook[1]

firstAction == event.Actions[1]

\* NewFields, were the field list kept between calls instead of declared anew
NewFields_Kept == fields

\* var fields []Field
NewFields == <<>>

\* MemberTitle, were the kind capitalised as in the title without a member
MemberTitle_KindTitled(memberName, action) ==
  Title(memberName) \o <<" ">> \o Title(action.Action) \o <<"d", " ">>
    \o action.EntityType \o <<":", " ">> \o action.Name

\* the title with the acting member: "%s %sd %s: %s"
MemberTitle(memberName, action) ==
  Title(memberName) \o <<" ">> \o action.Action \o <<"d", " ">>
    \o action.EntityType \o <<":", " ">> \o action.Name

\* the title without a member: "%sd %s: %s"
PlainTitle(action) ==
  Title(action.Action) \o <<"d", " ">> \o action.EntityType \o <<":", " ">> \o action.Name

\* the title is attempted only for an action with kind, entity type and name
Titled(action) == action.Action # <<>> /\ action.EntityType # <<>> /\ action.Name # <<>>

\* Emittable, were the URL not tested
Emittable_TitleOnly(title, url) == title # <<>>

\* toDiscord gives up on an empty title or URL
Emittable(title, url) == ~(title = <<>> \/ url = <<>>)

Message(title, url, col, flds) ==
  [Content |-> <<>>,
   Embeds |-> <<[Title |-> title, URL |-> url, Description |-> <<>>,
                 Color |-> col, Fields |-> flds]>>]

\* AfterFields, were the empty field list not tested
AfterFields_Always(flds) == "title"

\* toDiscord returns no message for the empty field list of a create or an
\* update, and goes on to the title otherwise
AfterFields(flds) == IF Len(flds) = 0 THEN "returned" ELSE "title"

\* the switch on the kind of the first action, up to the first member lookup
toDiscord_Switch ==
  /\ pc = "toDiscord"
  /\ LET index == getReferencesByTypeID(event)
         kind == firstAction.Action
         created == getActionFields(index, firstAction)
     IN /\ referencesByTypeID' = index
        /\ webhookTitle' = <<>>
        /\ webhookURL' = <<>>
        /\ discordWebhook' = <<>>
        /\ err' = FALSE
        /\ ownerI' = 1
        /\ owners' = <<>>
        /\ colour' = CASE kind = sCreate -> ColourCreate
                       [] kind = sUpdate -> ColourUpdate
                       [] kind = sDelete -> ColourDelete
                       [] OTHER -> 0
        /\ fields' = CASE kind = sCreate -> created
                       [] kind = sUpdate -> NewFields \o ChangesHead(index, firstAction.Changes)
                       [] OTHER -> NewFields
        /\ pc' = CASE kind = sCreate -> AfterFields(created)
                   [] kind = sUpdate -> "ownersAdded"
                   [] kind = sDelete -> "title"
                   [] OTHER -> "returned"
  /\ UNCHANGED <<env, req, api, w, webhook, lookups, posts, run, prev>>

\* LookupFailed, were the error of GetMember dropped
LookupFailed_Never(resp) == FALSE

\* a failed member lookup aborts getChangesFields
LookupFailed(resp) == ~resp.ok

\* one of the two loops of getChangesFields over the ids of an owner change:
\* a step is one GetMember call, or the end of the loop
OwnersLoop(ids, fieldName, here, next) ==
  /\ pc = here
  /\ \/ /\ ownerI <= Len(ids)
        /\ \E resp \in GetMember(ids[ownerI]) :
             /\ lookups' = Append(lookups, Called(ids[ownerI], resp, "owner"))
             /\ IF LookupFailed(resp)
                THEN /\ fields' = <<>>
                     /\ err' = TRUE
                     /\ owners' = <<>>
                     /\ ownerI' = 1
                     /\ pc' = "returned"
                ELSE /\ owners' = Append(owners, resp.Name)
                     /\ ownerI' = ownerI + 1
                     /\ UNCHANGED <<fields, err, pc>>
     \/ /\ ownerI > Len(ids)
        /\ fields' = IF Len(ids) > 0
                     THEN Append(fields, Field(fieldName, Join(owners, sComma), FALSE))
                     ELSE fields
        /\ owners' = <<>>
        /\ ownerI' = 1
        /\ pc' = next
        /\ UNCHANGED <<err, lookups>>
  /\ UNCHANGED <<env, req, api, w, webhook, referencesByTypeID, colour, webhookTitle,
                 webhookURL, discordWebhook, posts, run, prev>>

getChangesFields_OwnersAdded ==
  OwnersLoop(OwnerAdds(firstAction.Changes), nOwnersAdded, "ownersAdded", "ownersRemoved")

getChangesFields_OwnersRemoved ==
  OwnersLoop(OwnerRemoves(firstAction.Changes), nOwnersRemoved, "ownersRemoved", "changesTail")

\* the rest of getChangesFields, and toDiscord's test of its result
getChangesFields_Tail ==
  /\ pc = "changesTail"
  /\ fields' = fields \o ChangesTail(referencesByTypeID, firstAction.Changes)
  /\ pc' = AfterFields(fields')
  /\ UNCHANGED <<env, req, api, w, webhook, referencesByTypeID, colour, webhookTitle,
                 webhookURL, discordWebhook, err, ownerI, owners, lookups, posts, run, prev>>

\* title, URL and the message
toDiscord_Title ==
  /\ pc = "title"
  /\ LET lookup == Titled(firstAction) /\ event.MemberID # <<>>
     IN \E resp \in (IF lookup THEN GetMember(event.MemberID) ELSE {NoMember}) :
          LET title == IF ~Titled(firstAction) THEN <<>>
                       ELSE IF lookup THEN MemberTitle(resp.Name, firstAction)
                       ELSE PlainTitle(firstAction)
              url == firstAction.AppURL
          IN /\ lookups' = IF lookup
                           THEN Append(lookups, Called(event.MemberID, resp, "title"))
                           ELSE lookups
             /\ IF lookup /\ LookupFailed(resp)
                THEN /\ err' = TRUE
                     /\ UNCHANGED <<webhookTitle, webhookURL, discordWebhook>>
                ELSE /\ err' = FALSE
                     /\ webhookTitle' = title
                     /\ webhookURL' = url
                     /\ discordWebhook' = IF Emittable(title, url)
                                          THEN <<Message(title, url, colour, fields)>>
                                          ELSE <<>>
  /\ pc' = "returned"
  /\ UNCHANGED <<env, req, api, w, webhook, referencesByTypeID, fields, colour,
                 ownerI, owners, posts, run, prev>>


-----------------------------------------------------------------------------
(* The Cloud Function F. *)

StatusOK == 200
StatusBadRequest == 400

\* what the ResponseWriter holds: status 0 until WriteHeader is called
NoResponse == [status |-> 0, text |-> <<>>, json |-> <<>>]
BadRequest == [status |-> StatusBadRequest, text |-> sInvalidRequest, json |-> <<>>]
Accepted == [status |-> StatusOK, text |-> <<>>, json |-> <<>>]

translator == <<referencesByTypeID, fields, colour, webhookTitle, webhookURL,
                discordWebhook, err, ownerI, owners>>

\* configuration, method and content type, and the read of the body
F_Entry ==
  /\ pc = "start"
  /\ IF env.DISCORD_WEBHOOK_URL = <<>> \/ ~UrlParseOk(env.DISCORD_WEBHOOK_URL)
        \/ env.CLUBHOUSE_API_TOKEN = <<>>
     THEN pc' = "fatal" /\ w' = w
     ELSE IF req.Method # sPOST \/ req.ContentType # sJSON
     THEN pc' = "done" /\ w' = BadRequest
     ELSE IF req.readErr
     THEN pc' = "fatal" /\ w' = w
     ELSE pc' = "signature" /\ w' = w
  /\ UNCHANGED <<env, req, api, webhook, translator, lookups, posts, run, prev>>

\* MacKey, were the secret used as configured
MacKey_Untrimmed(secret) == secret

\* the shared secret as the MAC is keyed with it
MacKey(secret) == TrimSpace(secret)

\* the signature is accepted when the decoded header equals the MAC of the body
SignatureMatches(decoded, secret, data) ==
  HmacEqual(decoded, <<HmacSha256(MacKey(secret), data)>>)

\* the Clubhouse-Signature header, when there is one
F_VerifySignature ==
  /\ pc = "signature"
  /\ LET clubhouseSignature == HeaderTrimSpace(req.Signature)
         clubhouseHexSignature == HexDecodeString(clubhouseSignature)
     IN IF clubhouseSignature = HeaderEmpty
        THEN pc' = "decode" /\ w' = w
        ELSE IF env.CLUBHOUSE_WEBHOOK_SECRET = <<>> \/ clubhouseHexSignature.err
        THEN pc' = "fatal" /\ w' = w
        ELSE IF ~SignatureMatches(clubhouseHexSignature.bytes,
                                  env.CLUBHOUSE_WEBHOOK_SECRET, req.data)
        THEN pc' = "done" /\ w' = BadRequest
        ELSE pc' = "decode" /\ w' = w
  /\ UNCHANGED <<env, req, api, webhook, translator, lookups, posts, run, prev>>

\* json.Unmarshal of the body
F_Decode ==
  /\ pc = "decode"
  /\ IF Unmarshal(req.data).err
     THEN pc' = "fatal" /\ webhook' = webhook
     ELSE pc' = "version" /\ webhook' = <<Unmarshal(req.data).webhook>>
  /\ UNCHANGED <<env, req, api, w, translator, lookups, posts, run, prev>>

\* VersionSupported, were any stated version accepted
VersionSupported_AnyStated(wh) == wh.Version # <<>>

VersionSupported(wh) == wh.Version = sV1

F_CheckVersion ==
  /\ pc = "version"
  /\ IF ~VersionSupported(event)
     THEN pc' = "done" /\ w' = BadRequest
     ELSE pc' = "actions" /\ w' = w
  /\ UNCHANGED <<env, req, api, webhook, translator, lookups, posts, run, prev>>

\* Unhandled, were only the empty event left untranslated
Unhandled_OnlyEmpty(wh) == Len(wh.Actions) = 0

\* only an event of exactly one action is translated
Unhandled(wh) == Len(wh.Actions) # 1

F_CheckActions ==
  /\ pc = "actions"
  /\ IF Unhandled(event)
     THEN pc' = "done" /\ w' = Accepted
     ELSE pc' = "toDiscord" /\ w' = w
  /\ UNCHANGED <<env, req, api, webhook, translator, lookups, posts, run, prev>>

\* json.Marshal of the message: the payload is the message
Marshal(m) == m

\* what toDiscord returned
F_Translated ==
  /\ pc = "returned"
  /\ run = 0
  /\ IF err
     THEN pc' = "fatal" /\ w' = w
     ELSE IF discordWebhook = <<>>
     THEN pc' = "done" /\ w' = Accepted
     ELSE pc' = "post" /\ w' = w
  /\ UNCHANGED <<env, req, api, webhook, translator, lookups, posts, run, prev>>

\* the outcomes of http.Post: a transport error or a response status
PostOutcomes == {[err |-> TRUE, StatusCode |-> 0]}
                  \cup {[err |-> FALSE, StatusCode |-> c] : c \in {199, 200, 299, 300}}

\* PostAccepted, were the status tested from below only
PostAccepted_NoUpperBound(res) == res.StatusCode >= 200

PostAccepted(res) == ~(res.StatusCode < 200 \/ res.StatusCode >= 300)

\* what one call of http.Post leaves in the log of calls: the payload sent
\* and the outcome
Posted(payload, res) == [payload |-> payload, res |-> res]

\* the POST to Discord and the response to Clubhouse
F_Post ==
  /\ pc = "post"
  /\ \E res \in PostOutcomes :
       /\ posts' = Append(posts, Posted(Marshal(discordWebhook[1]), res))
       /\ IF res.err \/ ~PostAccepted(res)
          THEN pc' = "fatal" /\ w' = w
          ELSE pc' = "done" /\ w' = [status |-> StatusOK, text |-> <<>>, json |-> discordWebhook]
  /\ UNCHANGED <<env, req, api, webhook, translator, lookups, run, prev>>


-----------------------------------------------------------------------------
(* The events and requests the model is run on. *)

SeqsUpTo(S, n) == UNION {[1..k -> S] : k \in 0..n}

sStory == <<"s","t","o","r","y">>
sName == <<"F","i","x"," ","l","o","g","i","n"," ","b","u","g">>
sAppURL == <<"h","t","t","p","s",":","/","/","a","/","1">>
sComment == <<"c","o","m","m","e","n","t">>
sV2 == <<"v","2">>
sFeature == <<"f","e","a","t","u","r","e">>
sBug == <<"b","u","g">>

m1 == <<"m","1">>
m2 == <<"m","2">>
o1 == <<"o","1">>
o2 == <<"o","2">>
MemberIds == {m1, m2, o1, o2}

\* the profile name the lookup API holds for a member
ProfileName(id) ==
  CASE id = m1 -> <<"J","a","n","e"," ","D","o","e">>
    [] id = m2 -> <<"j","o","h","n"," ","r","o","e">>
    [] id = o1 -> <<"A","l">>
    [] OTHER -> <<"b","o">>

MemberFound(id) == [ok |-> TRUE, Name |-> ProfileName(id)]
MemberError == [ok |-> FALSE, Name |-> <<>>]

Ref(entityType, id, name) == [EntityType |-> entityType, ID |-> id, Name |-> name]

NoChanges ==
  [Deadline |-> <<>>, EpicID |-> <<>>, Estimate |-> <<>>, IterationID |-> <<>>,
   LabelIds |-> <<>>, OwnerIds |-> <<>>, ProjectID |-> <<>>, StoryType |-> <<>>,
   Text |-> <<>>, WorkflowStateID |-> <<>>]

ZeroAction ==
  [Action |-> <<>>, AppURL |-> <<>>, Changes |-> NoChanges, EntityType |-> <<>>,
   EpicID |-> 0, Estimate |-> 0, IterationID |-> 0, MilestoneID |-> 0, Name |-> <<>>,
   ProjectID |-> 0, StoryType |-> <<>>, WorkflowStateID |-> 0]

\* an action of the given kind with entity type, name and URL all set
Named(kind) ==
  [ZeroAction EXCEPT !.Action = kind, !.EntityType = sStory, !.Name = sName,
                     !.AppURL = sAppURL]

\* the action a with every choice of empty or set entity type, name and URL
Headers(a) ==
  {[a EXCEPT !.EntityType = e, !.Name = n, !.AppURL = u] :
     e \in {<<>>, sStory}, n \in {<<>>, sName}, u \in {<<>>, sAppURL}}

OptInts(S) == {<<>>} \cup {<<x>> : x \in S}
OldNew(S) == {<<c>> : c \in [Old : S, New : S]}
AddsRemoves(S, T) == {<<c>> : c \in [Adds : SeqsUpTo(S, MaxIds), Removes : SeqsUpTo(T, MaxIds)]}

EpicRefs == {Ref(sEpic, 1, <<"Q","3">>), Ref(sEpic, 1, <<"q","4">>)}
IterationRefs == {Ref(sIteration, 1, <<"S","7">>), Ref(sEpic, 1, <<"Q","3">>)}
StateRefs == {Ref(sWorkflowState, 20, <<"D","o","n","e">>),
              Ref(sWorkflowState, 20, <<"i","n"," ","d","e","v">>),
              Ref(sWorkflowState, 0, <<"N","e","w">>)}
ProjectRefs == {Ref(sProject, 1, <<"w","e","b">>), Ref(sProject, 0, <<"a","p","i">>)}
LabelRefs == {Ref(sLabel, 1, <<"b","u","g">>), Ref(sLabel, 2, <<"u","i">>)}

\* the changes records with one sub-record, each with the reference lists
\* that matter to it
ChangeCases ==
       {[c |-> [NoChanges EXCEPT !.Deadline = x], r |-> <<>>] : x \in OldNew(OptInts({3}))}
  \cup {[c |-> [NoChanges EXCEPT !.EpicID = x], r |-> r] :
          x \in OldNew(OptInts({1, 2})), r \in SeqsUpTo(EpicRefs, MaxRefs)}
  \cup {[c |-> [NoChanges EXCEPT !.Estimate = x], r |-> <<>>] : x \in OldNew(OptInts({5}))}
  \cup {[c |-> [NoChanges EXCEPT !.IterationID = x], r |-> r] :
          x \in OldNew(OptInts({1})), r \in SeqsUpTo(IterationRefs, MaxRefs)}
  \cup {[c |-> [NoChanges EXCEPT !.LabelIds = x], r |-> r] :
          x \in AddsRemoves({1, 2}, {2}), r \in SeqsUpTo(LabelRefs, MaxRefs)}
  \cup {[c |-> [NoChanges EXCEPT !.OwnerIds = x], r |-> <<>>] : x \in AddsRemoves({o1, o2}, {o1})}
  \cup {[c |-> [NoChanges EXCEPT !.ProjectID = x], r |-> r] :
          x \in OldNew(OptInts({1, 2})), r \in SeqsUpTo(ProjectRefs, MaxRefs)}
  \cup {[c |-> [NoChanges EXCEPT !.StoryType = x], r |-> <<>>] : x \in OldNew({sBug, sFeature})}
  \cup {[c |-> [NoChanges EXCEPT !.Text = x], r |-> <<>>] : x \in OldNew({<<"a">>, <<"b">>})}
  \cup {[c |-> [NoChanges EXCEPT !.WorkflowStateID = x], r |-> r] :
          x \in OldNew(OptInts({10, 20})), r \in SeqsUpTo(StateRefs, MaxRefs)}
  \cup {[c |-> NoChanges, r |-> <<>>]}

\* a changes record with every sub-record
AllChanged ==
  [Deadline |-> <<[Old |-> <<>>, New |-> <<3>>]>>,
   EpicID |-> <<[Old |-> <<1>>, New |-> <<>>]>>,
   Estimate |-> <<[Old |-> <<5>>, New |-> <<>>]>>,
   IterationID |-> <<[Old |-> <<>>, New |-> <<1>>]>>,
   LabelIds |-> <<[Adds |-> <<1>>, Removes |-> <<2>>]>>,
   OwnerIds |-> <<[Adds |-> <<o1>>, Removes |-> <<o2>>]>>,
   ProjectID |-> <<[Old |-> <<1>>, New |-> <<2>>]>>,
   StoryType |-> <<[Old |-> sBug, New |-> sFeature]>>,
   Text |-> <<[Old |-> <<"a">>, New |-> <<"b">>]>>,
   WorkflowStateID |-> <<[Old |-> <<10>>, New |-> <<20>>]>>]

AllRefs == <<Ref(sEpic, 1, <<"Q","3">>), Ref(sLabel, 1, <<"b","u","g">>),
             Ref(sProject, 2, <<"a","p","i">>), Ref(sWorkflowState, 20, <<"D","o","n","e">>)>>

Doc(actions, member, refs, version) ==
  [Actions |-> actions, MemberID |-> member, References |-> refs, Version |-> version]

\* update events
UpdateDocs ==
       {Doc(<<[a EXCEPT !.Changes = cc.c]>>, m, cc.r, sV1) :
          a \in {Named(sUpdate), [Named(sUpdate) EXCEPT !.AppURL = <<>>]},
          m \in {<<>>, m1}, cc \in ChangeCases}
  \cup {Doc(<<[a EXCEPT !.Changes = AllChanged]>>, m, AllRefs, sV1) :
          a \in Headers(Named(sUpdate)), m \in {<<>>, m1, m2}}

\* create events
CreateDocs ==
  {Doc(<<[a EXCEPT !.StoryType = st, !.ProjectID = p, !.MilestoneID = ms,
                   !.WorkflowStateID = ws, !.EpicID = ep, !.IterationID = it,
                   !.Estimate = es]>>, m, r, sV1) :
     a \in Headers(Named(sCreate)), st \in {<<>>, sFeature}, p \in {0, 1}, ms \in {0, 1},
     ws \in {0, 20}, ep \in {0, 1}, it \in {0, 1}, es \in {0, 3},
     m \in {<<>>, m1}, r \in {<<>>, AllRefs}}

\* delete events and events of a kind toDiscord has no case for
OtherDocs ==
  {Doc(<<a>>, m, <<>>, sV1) :
     a \in UNION {Headers(Named(k)) : k \in {sDelete, sComment, <<>>}},
     m \in {<<>>, m1, m2}}

SomeActions == {[Named(sCreate) EXCEPT !.StoryType = sFeature], Named(sDelete),
                [Named(sUpdate) EXCEPT !.Changes = AllChanged]}

\* events of any number of actions and of either version
EnvelopeDocs ==
  {Doc(as, m, r, v) : as \in SeqsUpTo(SomeActions, MaxActions), m \in {<<>>, m1},
                      r \in {<<>>, AllRefs}, v \in {sV1, sV2, <<>>}}

Docs == UpdateDocs \cup CreateDocs \cup OtherDocs \cup EnvelopeDocs

sToken == <<"t","o","k">>
sDiscordURL == <<"h","t","t","p","s",":","/","/","d">>
sSecret == <<"k","e","y">>

GoodEnv == [DISCORD_WEBHOOK_URL |-> sDiscordURL, CLUBHOUSE_API_TOKEN |-> sToken,
            CLUBHOUSE_WEBHOOK_SECRET |-> <<>>]

Envs == [DISCORD_WEBHOOK_URL : {<<>>, <<":", "d">>, sDiscordURL},
         CLUBHOUSE_API_TOKEN : {<<>>, sToken},
         CLUBHOUSE_WEBHOOK_SECRET : {<<>>, sSecret, <<" ">> \o sSecret \o <<"\n">>, <<" ">>}]

Body(doc) == [ok |-> TRUE, doc |-> doc]

\* a few bodies for the requests that vary configuration and headers
PlainDocs == {Doc(<<Named(sDelete)>>, <<>>, <<>>, sV1), Doc(<<Named(sDelete)>>, <<>>, <<>>, sV2),
              Doc(<<>>, <<>>, <<>>, sV1)}
PlainBodies == {Body(d) : d \in PlainDocs} \cup {[ok |-> FALSE, doc |-> Doc(<<>>, <<>>, <<>>, <<>>)]}

\* the header values sent along with a body: none, white space, text that
\* is not hexadecimal, and the MACs of this or another body under some keys
Signatures(data) ==
  {HeaderEmpty, [pad |-> TRUE, valid |-> TRUE, bytes |-> <<>>],
   [pad |-> FALSE, valid |-> FALSE, bytes |-> <<>>]}
  \cup {[pad |-> p, valid |-> TRUE, bytes |-> <<HmacSha256(k, d)>>] :
          p \in BOOLEAN, k \in {sSecret, <<" ">> \o sSecret \o <<"\n">>, <<>>},
          d \in {data, Body(Doc(<<>>, <<>>, <<>>, sV1))}}

Request(method, contentType, signature, data, readErr) ==
  [Method |-> method, ContentType |-> contentType, Signature |-> signature,
   data |-> data, readErr |-> readErr]

\* well-formed unsigned requests under a complete configuration
EventRuns == {[env |-> GoodEnv, req |-> Request(sPOST, sJSON, HeaderEmpty, Body(d), FALSE)] :
                d \in Docs}

\* requests that vary configuration, method, content type and signature
TransportRuns ==
  UNION {{[env |-> e, req |-> Request(mt, ct, sg, b, re)] :
            e \in Envs, mt \in {sPOST, <<"G","E","T">>}, ct \in {sJSON, <<"t","e","x","t">>},
            sg \in Signatures(b), re \in BOOLEAN} : b \in PlainBodies}

\* every call of the lookup API may fail or succeed
AnyApi == [id \in MemberIds |-> {MemberFound(id), MemberError}]

\* a lookup API that answers the same id the same way every time
StableApis == {[id \in MemberIds |-> {IF id \in ok THEN MemberFound(id) ELSE MemberError}] :
                 ok \in SUBSET MemberIds}

Locals ==
  /\ referencesByTypeID = <<>>
  /\ fields = <<>>
  /\ colour = 0
  /\ webhookTitle = <<>>
  /\ webhookURL = <<>>
  /\ discordWebhook = <<>>
  /\ err = FALSE
  /\ ownerI = 1
  /\ owners = <<>>
  /\ lookups = <<>>
  /\ posts = <<>>
  /\ w = NoResponse
  /\ prev = <<>>

Init ==
  /\ \E r \in EventRuns \cup TransportRuns : env = r.env /\ req = r.req
  /\ api = AnyApi
  /\ pc = "start"
  /\ webhook = <<>>
  /\ run = 0
  /\ Locals

Next ==
  \/ F_Entry
  \/ F_VerifySignature
  \/ F_Decode
  \/ F_CheckVersion
  \/ F_CheckActions
  \/ toDiscord_Switch
  \/ getChangesFields_OwnersAdded
  \/ getChangesFields_OwnersRemoved
  \/ getChangesFields_Tail
  \/ toDiscord_Title
  \/ F_Translated
  \/ F_Post

Spec == Init /\ [][Next]_vars


-----------------------------------------------------------------------------
(* toDiscord called twice on one event, against a lookup API that answers   *)
(* an id the same way every time.                                           *)

\* what a call of toDiscord returned
Returned == [message |-> discordWebhook, err |-> err]

\* the second call, on the event of the first
toDiscord_Again ==
  /\ pc = "returned"
  /\ run = 1
  /\ prev' = <<Returned>>
  /\ run' = 2
  /\ pc' = "toDiscord"
  /\ UNCHANGED <<env, req, api, w, webhook, translator, lookups, posts>>

\* the lookup APIs that differ in the answers for the given ids only
StableFor(ids) == {a \in StableApis : \A id \in MemberIds \ ids : a[id] = {MemberFound(id)}}

\* the ids an event has looked up
IdsOf(doc) ==
  (IF doc.MemberID = <<>> THEN {} ELSE {doc.MemberID})
    \cup Range(OwnerAdds(doc.Actions[1].Changes))
    \cup Range(OwnerRemoves(doc.Actions[1].Changes))

\* the events of one action with entity type, name and URL
TwiceDocs ==
  {d \in UpdateDocs \cup CreateDocs \cup OtherDocs :
     /\ Titled([d.Actions[1] EXCEPT !.Action = sUpdate])
     /\ d.Actions[1].AppURL # <<>>
     /\ d.Actions[1].MilestoneID = 0 /\ d.Actions[1].IterationID = 0}

InitTwice ==
  /\ \E d \in TwiceDocs :
       /\ req = Request(sPOST, sJSON, HeaderEmpty, Body(d), FALSE)
       /\ webhook = <<Unmarshal(Body(d)).webhook>>
       /\ api \in StableFor(IdsOf(d))
  /\ env = GoodEnv
  /\ pc = "toDiscord"
  /\ run = 1
  /\ Locals

NextTwice ==
  \/ toDiscord_Switch
  \/ getChangesFields_OwnersAdded
  \/ getChangesFields_OwnersRemoved
  \/ getChangesFields_Tail
  \/ toDiscord_Title
  \/ toDiscord_Again

SpecTwice == InitTwice /\ [][NextTwice]_vars

-----------------------------------------------------------------------------
(* Properties of F and toDiscord. *)

\* F has declared and decoded the event
Handled == webhook # <<>>

\* the configuration is complete and the body was read
Served ==
  /\ env.DISCORD_WEBHOOK_URL # <<>>
  /\ UrlParseOk(env.DISCORD_WEBHOOK_URL)
  /\ env.CLUBHOUSE_API_TOKEN # <<>>
  /\ ~req.readErr

PostJson == req.Method = sPOST /\ req.ContentType = sJSON

\* the translator has not been entered
Untranslated ==
  /\ referencesByTypeID = <<>>
  /\ fields = <<>>
  /\ colour = 0
  /\ discordWebhook = <<>>
  /\ ~err

IsPrefix(a, b) == Len(a) <= Len(b) /\ SubSeq(b, 1, Len(a)) = a

\* C1 as stated: an event whose action count is not 1 is answered 200 and
\* nothing is forwarded, whatever its version tag, references and member id.
C1_AnyVersion ==
  (Handled /\ Len(event.Actions) # 1 /\ pc = "done") => (w.status = 200 /\ posts = <<>>)

\* C1, amended: an event of version "v1" whose action count is not 1 is
\* answered 200 with no body; one of another version is answered 400; in both
\* cases the translator is not entered and no lookup or forwarding call is made.
C1_UnhandledAccepted ==
  (Handled /\ Len(event.Actions) # 1) =>
    /\ pc \in {"version", "actions", "done"}
    /\ pc = "done" => w = (IF event.Version = sV1 THEN Accepted ELSE BadRequest)
    /\ Untranslated
    /\ lookups = <<>>
    /\ posts = <<>>

C1_Witness ==
  /\ Handled
  /\ Len(event.Actions) = 2
  /\ event.MemberID # <<>>
  /\ event.References # <<>>
  /\ pc = "done"
  /\ w.status = 200

\* C2: an event whose version tag is not "v1" is answered 400; the
\* translator is not entered and no lookup or forwarding call is made,
\* whatever the action count is.
C2_VersionRejected ==
  (Handled /\ event.Version # sV1) =>
    /\ pc \in {"version", "done"}
    /\ pc = "done" => w = BadRequest
    /\ Untranslated
    /\ lookups = <<>>
    /\ posts = <<>>

C2_Witness ==
  /\ Handled
  /\ event.Version = sV2
  /\ Len(event.Actions) = 2
  /\ pc = "done"
  /\ w.status = 400

\* the request carries a signature that decodes to something other than
\* the MAC of the body under the configured secret
BadSignature ==
  /\ HeaderTrimSpace(req.Signature) # HeaderEmpty
  /\ env.CLUBHOUSE_WEBHOOK_SECRET # <<>>
  /\ ~HexDecodeString(HeaderTrimSpace(req.Signature)).err
  /\ HexDecodeString(HeaderTrimSpace(req.Signature)).bytes
       # <<HmacSha256(TrimSpace(env.CLUBHOUSE_WEBHOOK_SECRET), req.data)>>

\* C3: a POST/JSON request whose signature header decodes to something other
\* than the HMAC of the raw body under the configured secret is answered 400
\* before the body is decoded, with no translation, lookup or forwarding; a
\* request without the header is not checked and goes on to be decoded even
\* when a secret is configured.
C3_Signature ==
  /\ (Served /\ PostJson /\ BadSignature) =>
       /\ pc \in {"start", "signature", "done"}
       /\ pc = "done" => w = BadRequest
       /\ webhook = <<>>
       /\ Untranslated
       /\ lookups = <<>>
       /\ posts = <<>>
  /\ (Served /\ PostJson /\ req.Signature = HeaderEmpty
        /\ env.CLUBHOUSE_WEBHOOK_SECRET # <<>> /\ pc \notin {"start", "signature"}) =>
       \/ pc = "decode"
       \/ Handled
       \/ pc = "fatal" /\ ~req.data.ok

C3_Witness ==
  /\ Served /\ PostJson /\ BadSignature
  /\ req.data.ok
  /\ pc = "done"
  /\ w = BadRequest

C3_WitnessUnsigned ==
  /\ Served /\ PostJson
  /\ req.Signature = HeaderEmpty
  /\ env.CLUBHOUSE_WEBHOOK_SECRET # <<>>
  /\ Handled
  /\ pc = "done"
  /\ w.status = 200

\* the ids of the lookups made for an owner change, in call order
OwnerCalls == [i \in DOMAIN SelectSeq(lookups, LAMBDA c : c.at = "owner") |->
                 SelectSeq(lookups, LAMBDA c : c.at = "owner")[i].id]

\* the ids of the owner change of the event, adds before removes
OwnerIdsInOrder == OwnerAdds(firstAction.Changes) \o OwnerRemoves(firstAction.Changes)

\* C4: the lookups of an owner change are made one per id, adds before
\* removes; the first that fails is the last lookup of the request, the
\* mapper returns no field, the translator an error and no message, and
\* nothing is forwarded.
C4_OwnerLookupAborts ==
  (Handled /\ Len(event.Actions) = 1 /\ firstAction.Action = sUpdate) =>
    /\ IsPrefix(OwnerCalls, OwnerIdsInOrder)
    /\ (pc \in {"changesTail", "title"}) => OwnerCalls = OwnerIdsInOrder
    /\ \A k \in DOMAIN lookups :
         (lookups[k].at = "owner" /\ ~lookups[k].ok) =>
           /\ k = Len(lookups)
           /\ fields = <<>>
           /\ err
           /\ discordWebhook = <<>>
           /\ posts = <<>>
           /\ w = NoResponse
           /\ pc \in {"returned", "fatal"}

C4_Witness ==
  /\ Handled
  /\ Len(event.Actions) = 1
  /\ firstAction.Action = sUpdate
  /\ Len(OwnerAdds(firstAction.Changes)) = 2
  /\ Len(OwnerRemoves(firstAction.Changes)) >= 1
  /\ event.MemberID # <<>>
  /\ Len(lookups) = 2
  /\ lookups[1].ok
  /\ ~lookups[2].ok
  /\ pc = "fatal"
  /\ posts = <<>>

\* C5: toDiscord returns a message exactly when the kind is create, update
\* or delete, the field list of a create or update is not empty, kind, entity
\* type, name and URL are not empty and no member lookup failed; it never
\* returns a message and an error; the message of a delete has no fields.
C5_MessageExactlyWhen ==
  (pc = "returned" /\ run = 0) =>
    LET a == firstAction
        mapped == IF a.Action = sCreate
                  THEN getActionFields(getReferencesByTypeID(event), a)
                  ELSE fields
    IN /\ (discordWebhook # <<>>) <=>
            /\ a.Action \in {sCreate, sUpdate, sDelete}
            /\ a.Action \in {sCreate, sUpdate} => mapped # <<>>
            /\ a.Action # <<>> /\ a.EntityType # <<>> /\ a.Name # <<>>
            /\ a.AppURL # <<>>
            /\ \A k \in DOMAIN lookups : lookups[k].ok
       /\ ~(discordWebhook # <<>> /\ err)
       /\ (discordWebhook # <<>>) =>
            /\ Len(discordWebhook[1].Embeds) = 1
            /\ discordWebhook[1].Embeds[1].Fields = mapped
            /\ discordWebhook[1].Embeds[1].URL = a.AppURL
            /\ a.Action = sDelete => discordWebhook[1].Embeds[1].Fields = <<>>

C5_Witness ==
  /\ pc = "returned"
  /\ run = 0
  /\ firstAction.Action = sDelete
  /\ discordWebhook # <<>>
  /\ discordWebhook[1].Embeds[1].Fields = <<>>
  /\ discordWebhook[1].Embeds[1].Title # <<>>


\* the raw changes record of the event's action, as the body carries it
rawChanges == req.data.doc.Actions[1].Changes

\* the references of the event with the given type and id, in list order
Matching(entityType, id) ==
  SelectSeq(event.References, LAMBDA r : r.EntityType = entityType /\ r.ID = id)

\* what the index holds for (entityType, id): "Unknown" without a reference,
\* otherwise the name of the last one
Referenced(entityType, id) ==
  IF Matching(entityType, id) = <<>> THEN sUnknown
  ELSE Matching(entityType, id)[Len(Matching(entityType, id))].Name

\* a side of an id-valued change as C6 words it: "None" for an absent id
SideAsStated(entityType, opt) ==
  IF opt = <<>> THEN sNone ELSE Referenced(entityType, opt[1])

\* the values of the fields with the given name
ValuesOf(name) == [i \in DOMAIN SelectSeq(fields, LAMBDA f : f.Name = name) |->
                     SelectSeq(fields, LAMBDA f : f.Name = name)[i].Value]

\* the field list of an update is complete
Mapped == Handled /\ Len(event.Actions) = 1 /\ firstAction.Action = sUpdate /\ pc = "title"

sUnknownToDone == <<"U","n","k","n","o","w","n"," ","-",">"," ","D","o","n","e">>

\* C6 as stated: every id-valued sub-record (epic, iteration, project,
\* workflow state) yields one field "<old> -> <new>", a side being "None" for
\* an absent id, "Unknown" for an id without reference, else the name.
C6_AsStated ==
  Mapped =>
    /\ rawChanges.EpicID # <<>> =>
         ValuesOf(nEpic) = <<ArrowFmt(SideAsStated(sEpic, rawChanges.EpicID[1].Old),
                                      SideAsStated(sEpic, rawChanges.EpicID[1].New))>>
    /\ rawChanges.IterationID # <<>> =>
         ValuesOf(nIteration) =
           <<ArrowFmt(SideAsStated(sIteration, rawChanges.IterationID[1].Old),
                      SideAsStated(sIteration, rawChanges.IterationID[1].New))>>
    /\ rawChanges.ProjectID # <<>> =>
         ValuesOf(nProject) =
           <<ArrowFmt(SideAsStated(sProject, rawChanges.ProjectID[1].Old),
                      SideAsStated(sProject, rawChanges.ProjectID[1].New))>>
    /\ rawChanges.WorkflowStateID # <<>> =>
         ValuesOf(nState) =
           <<ArrowFmt(SideAsStated(sWorkflowState, rawChanges.WorkflowStateID[1].Old),
                      SideAsStated(sWorkflowState, rawChanges.WorkflowStateID[1].New))>>

\* C6, amended: an epic or iteration sub-record yields one field
\* "<old> -> <new>", a side being "None" for an absent id, "Unknown" for an id
\* without reference, else the name of the reference; a project or
\* workflow-state sub-record yields one field whose sides are those of the
\* decoded ids, an absent id being the id 0: "Unknown" without a reference,
\* else the name, never "None"; the value of the State field is title-cased.
\* Old 10 and new 20 with the only workflow-state reference 20 "Done" give
\* "Unknown -> Done".
C6_IdChanges ==
  Mapped =>
    /\ rawChanges.EpicID # <<>> =>
         ValuesOf(nEpic) = <<ArrowFmt(SideAsStated(sEpic, rawChanges.EpicID[1].Old),
                                      SideAsStated(sEpic, rawChanges.EpicID[1].New))>>
    /\ rawChanges.IterationID # <<>> =>
         ValuesOf(nIteration) =
           <<ArrowFmt(SideAsStated(sIteration, rawChanges.IterationID[1].Old),
                      SideAsStated(sIteration, rawChanges.IterationID[1].New))>>
    /\ rawChanges.ProjectID # <<>> =>
         ValuesOf(nProject) =
           <<ArrowFmt(Referenced(sProject, IntOf(rawChanges.ProjectID[1].Old)),
                      Referenced(sProject, IntOf(rawChanges.ProjectID[1].New)))>>
    /\ rawChanges.WorkflowStateID # <<>> =>
         ValuesOf(nState) =
           <<Title(ArrowFmt(Referenced(sWorkflowState, IntOf(rawChanges.WorkflowStateID[1].Old)),
                            Referenced(sWorkflowState, IntOf(rawChanges.WorkflowStateID[1].New))))>>
    /\ (/\ rawChanges.WorkflowStateID = <<[Old |-> <<10>>, New |-> <<20>>]>>
        /\ event.References = <<Ref(sWorkflowState, 20, <<"D","o","n","e">>)>>) =>
         ValuesOf(nState) = <<sUnknownToDone>>

C6_Witness ==
  /\ Mapped
  /\ rawChanges.WorkflowStateID = <<[Old |-> <<10>>, New |-> <<20>>]>>
  /\ event.References = <<Ref(sWorkflowState, 20, <<"D","o","n","e">>)>>
  /\ fields = <<Field(nState, sUnknownToDone, FALSE)>>

\* the names of the label ids that have a reference, in list order
RECURSIVE ResolvedLabels(_)
ResolvedLabels(ids) ==
  IF ids = <<>> THEN <<>>
  ELSE (IF Matching(sLabel, Head(ids)) = <<>> THEN <<>>
        ELSE <<Referenced(sLabel, Head(ids))>>) \o ResolvedLabels(Tail(ids))

\* C7: the value of "Label(s) Added" / "Label(s) Removed" is the comma-joined
\* names of the ids that resolve, an id without reference adding nothing, and
\* the field is left out when no id of the list resolves.
C7_LabelsResolved ==
  (Mapped /\ rawChanges.LabelIds # <<>>) =>
    /\ ValuesOf(nLabelsAdded) =
         (IF ResolvedLabels(rawChanges.LabelIds[1].Adds) = <<>> THEN <<>>
          ELSE <<Join(ResolvedLabels(rawChanges.LabelIds[1].Adds), sComma)>>)
    /\ ValuesOf(nLabelsRemoved) =
         (IF ResolvedLabels(rawChanges.LabelIds[1].Removes) = <<>> THEN <<>>
          ELSE <<Join(ResolvedLabels(rawChanges.LabelIds[1].Removes), sComma)>>)

\* the lookups made for the title
TitleCalls == SelectSeq(lookups, LAMBDA c : c.at = "title")

\* the kind with its first letter in upper case
Capitalised(kind) == <<ToTitle(Head(kind))>> \o Tail(kind)

sJaneUpdated == <<"J","a","n","e"," ","D","o","e"," ","u","p","d","a","t","e","d"," ",
                  "s","t","o","r","y",":"," ","F","i","x"," ","l","o","g","i","n"," ",
                  "b","u","g">>
sUpdated == <<"U","p","d","a","t","e","d"," ","s","t","o","r","y",":"," ",
              "F","i","x"," ","l","o","g","i","n"," ","b","u","g">>

\* C8: for an action with kind, entity type and name the title is
\* "<Member Name> <kind>d <entity-type>: <name>", the member name title-cased
\* and got by one lookup, when the event has a member id, and
\* "<Kind>d <entity-type>: <name>" with no lookup for the title when it has
\* none.
C8_Title ==
  (Handled /\ Len(event.Actions) = 1 /\ run = 0 /\ Titled(firstAction)) =>
    LET a == firstAction
        rest == <<"d", " ">> \o a.EntityType \o <<":", " ">> \o a.Name
    IN /\ Len(TitleCalls) <= 1
       /\ event.MemberID = <<>> => TitleCalls = <<>>
       /\ (pc = "returned" /\ ~err /\ a.Action \in {sCreate, sUpdate, sDelete}
             /\ (a.Action = sDelete \/ fields # <<>>)) =>
            /\ webhookTitle =
                 (IF event.MemberID # <<>>
                  THEN Title(ProfileName(event.MemberID)) \o <<" ">> \o a.Action \o rest
                  ELSE Capitalised(a.Action) \o rest)
            /\ event.MemberID # <<>> => TitleCalls = <<[id |-> event.MemberID, ok |-> TRUE, at |-> "title"]>>
            /\ discordWebhook # <<>> => discordWebhook[1].Embeds[1].Title = webhookTitle
            /\ (a.Action = sUpdate /\ a.EntityType = sStory /\ a.Name = sName) =>
                 webhookTitle = (CASE event.MemberID = m1 -> sJaneUpdated
                                   [] event.MemberID = <<>> -> sUpdated
                                   [] OTHER -> webhookTitle)

C8_Witness ==
  /\ pc = "returned"
  /\ run = 0
  /\ event.MemberID = m1
  /\ Len(TitleCalls) = 1
  /\ discordWebhook # <<>>
  /\ discordWebhook[1].Embeds[1].Title = sJaneUpdated

C8_WitnessNoMember ==
  /\ pc = "returned"
  /\ run = 0
  /\ event.MemberID = <<>>
  /\ lookups = <<>>
  /\ discordWebhook # <<>>
  /\ discordWebhook[1].Embeds[1].Title = sUpdated

\* a create action without story type, project, milestone, epic, iteration
\* and estimate
Bare(a) ==
  /\ a.Action = sCreate
  /\ a.StoryType = <<>>
  /\ a.ProjectID = 0
  /\ a.MilestoneID = 0
  /\ a.EpicID = 0
  /\ a.IterationID = 0
  /\ a.Estimate = 0

\* the translator returns no message and no error, and F answers 200
\* without forwarding
NoMessage ==
  /\ pc \in {"version", "actions", "toDiscord", "returned", "done"}
  /\ discordWebhook = <<>>
  /\ ~err
  /\ posts = <<>>
  /\ pc = "done" => w = Accepted

\* C9 as stated: a create action with no story type, no project, milestone,
\* epic or iteration id and no estimate yields no message, whatever its
\* other attributes are.
C9_AsStated ==
  (Handled /\ event.Version = sV1 /\ Len(event.Actions) = 1 /\ Bare(firstAction)) => NoMessage

\* C9, amended: a create action with no story type, no project, milestone,
\* workflow-state, epic or iteration id and no estimate yields no message,
\* and F answers 200 without lookup or forwarding, whatever its other
\* attributes are.
C9_BareCreate ==
  (Handled /\ event.Version = sV1 /\ Len(event.Actions) = 1 /\ Bare(firstAction)
     /\ firstAction.WorkflowStateID = 0) => (NoMessage /\ lookups = <<>>)

C9_Witness ==
  /\ Handled
  /\ Len(event.Actions) = 1
  /\ Bare(firstAction)
  /\ firstAction.WorkflowStateID = 0
  /\ Titled(firstAction)
  /\ firstAction.AppURL # <<>>
  /\ event.MemberID # <<>>
  /\ event.References # <<>>
  /\ pc = "done"
  /\ w = Accepted


\* some key of the reference list occurs twice
DuplicateKeys ==
  \E i, j \in DOMAIN event.References :
    /\ i < j
    /\ event.References[i].EntityType = event.References[j].EntityType
    /\ event.References[i].ID = event.References[j].ID
    /\ event.References[i].Name # event.References[j].Name

C11_TitleLookupLast ==
  (Handled /\ Len(event.Actions) = 1 /\ run = 0) =>
    LET a == firstAction
        created == getActionFields(getReferencesByTypeID(event), a)
    IN /\ (pc \in {"version", "actions", "toDiscord", "ownersAdded", "ownersRemoved",
                   "changesTail", "title"}) => TitleCalls = <<>>
       /\ TitleCalls # <<>> =>
            /\ a.Action \in {sCreate, sUpdate, sDelete}
            /\ a.Action = sCreate => (created # <<>> /\ fields = created)
            /\ a.Action = sUpdate => fields # <<>>
            /\ \A k \in DOMAIN lookups : lookups[k].at = "owner" => lookups[k].ok
            /\ lookups[Len(lookups)].at = "title"
            /\ Len(TitleCalls) = 1
            /\ a.Action = sUpdate => OwnerCalls = OwnerIdsInOrder
            /\ a.Action # sUpdate => Len(lookups) = 1
            /\ colour = (CASE a.Action = sCreate -> ColourCreate
                           [] a.Action = sUpdate -> ColourUpdate
                           [] OTHER -> ColourDelete)

C11_Witness ==
  /\ Handled
  /\ Len(event.Actions) = 1
  /\ run = 0
  /\ firstAction.Action = sUpdate
  /\ Len(OwnerIdsInOrder) >= 2
  /\ Len(lookups) = Len(OwnerIdsInOrder) + 1
  /\ lookups[Len(lookups)].at = "title"
  /\ pc = "returned"

\* an update with the acting member set whose only change maps to no field
C11_WitnessNoFields ==
  /\ Handled
  /\ Len(event.Actions) = 1
  /\ run = 0
  /\ firstAction.Action = sUpdate
  /\ Titled(firstAction)
  /\ event.MemberID # <<>>
  /\ fields = <<>>
  /\ lookups = <<>>
  /\ pc = "done"


\* the POST failed or Discord answered outside 200..299
PostRefused(p) == p.res.err \/ p.res.StatusCode < 200 \/ p.res.StatusCode > 299

\* C12: a request makes at most one POST to Discord, and only with the
\* message toDiscord returned; F answers 200 with the message only after a
\* POST that returned a 2xx status; after an error of toDiscord, a failed
\* POST or a status outside 2xx the request ends fatally and no response is
\* written.
C12_ForwardOnce ==
  run = 0 =>
    /\ Len(posts) <= 1
    /\ posts # <<>> =>
         /\ Handled
         /\ discordWebhook # <<>>
         /\ ~err
         /\ posts[1].payload = discordWebhook[1]
         /\ pc = (IF PostRefused(posts[1]) THEN "fatal" ELSE "done")
         /\ w = (IF PostRefused(posts[1]) THEN NoResponse
                 ELSE [status |-> 200, text |-> <<>>, json |-> discordWebhook])
    /\ w.json # <<>> => (posts # <<>> /\ ~PostRefused(posts[1]) /\ w.status = 200)
    /\ pc = "post" => (discordWebhook # <<>> /\ ~err /\ w = NoResponse)
    /\ err => (pc \in {"returned", "fatal"} /\ posts = <<>> /\ w = NoResponse)
    /\ pc = "fatal" => w = NoResponse

C12_Witness ==
  /\ run = 0
  /\ Len(posts) = 1
  /\ ~posts[1].res.err
  /\ posts[1].res.StatusCode = 299
  /\ pc = "done"
  /\ w.status = 200
  /\ w.json = discordWebhook
  /\ lookups # <<>>

\* Discord answered 300: the request ends fatally
C12_WitnessRefused ==
  /\ run = 0
  /\ Len(posts) = 1
  /\ ~posts[1].res.err
  /\ posts[1].res.StatusCode = 300
  /\ pc = "fatal"
  /\ w = NoResponse


====
